---- MODULE Spec2Model ----
(***************************************************************************)
(* A model of ozzy's Api class (src/src/core/Api.ts): one handle, its      *)
(* mutable middleware list and header list, the verb calls made on it, the *)
(* transport exchange of each call and the continuation-passing chain that *)
(* applyMiddleware drives over the response.                               *)
(*                                                                         *)
(* A middleware is a caller-supplied function (data, next) -> result.  The *)
(* model draws each one from a closed set of behaviours (MiddlewareKinds). *)
(* A middleware may be asynchronous, so the body of each middleware runs   *)
(* as a step of its own (MiddlewareRuns); nextHandler itself is            *)
(* synchronous and runs inside the step of the middleware that invokes it. *)
(* A middleware that invokes its continuation awaits its result before it  *)
(* goes on, so the pending invocations of one call form a stack.           *)
(***************************************************************************)
EXTENDS Integers, Sequences, FiniteSets

\* ---------------------------------------------------------------- bounds
MaxCalls == 2        \* verb calls issued on the handle
MaxMiddleware == 3   \* entries the handle's middleware list may reach
MaxCallMiddleware == 2  \* call-level middleware given to one verb call
MaxCtorMiddleware == 2  \* middleware given to the constructor

\* ------------------------------------------------------ middleware values
\* The behaviours a caller's middleware (data, next) => ... is drawn from.
MiddlewareKinds ==
  { "forward",          \* return next(data)
    "transform",        \* return next(Transform(data))
    "shortCircuit",     \* return ShortCircuitResult(data), next not invoked
    "throws",           \* throw (or return a rejected promise)
    "wrapsResult",      \* return WrapResult(await next(data))
    "callsNextTwice",   \* await next(data); return next(data)
    "catches" }         \* try { return await next(data) } catch (e) { return CatchResult(e) }

Transform(v) == v + 1
ShortCircuitResult(v) == v + 50
WrapResult(r) == r + 1000
CatchResult(e) == 7

\* An entry of a middleware list: the function (its behaviour k) and, as a
\* label that no operation reads, who supplied it: 0 for the constructor
\* or use(), the call's number for a verb call's call-level middleware.
Entry(k, by) == [k |-> k, by |-> by]

RECURSIVE Entries(_, _)
Entries(ks, by) ==
  IF ks = <<>> THEN <<>> ELSE <<Entry(Head(ks), by)>> \o Entries(Tail(ks), by)

RECURSIVE KindSeqs(_)
KindSeqs(n) ==
  IF n = 0 THEN {<<>>}
  ELSE LET S == KindSeqs(n - 1)
       IN  S \cup { Append(s, k) : s \in {t \in S : Len(t) = n - 1}, k \in MiddlewareKinds }

\* ------------------------------------------------------------- the inputs
BaseUrls == {"https://api.example.com"}
Paths == {"/items"}
Responses == {200}             \* raw responses the transport may produce
NetworkErrors == {"ECONNREFUSED", "ETIMEDOUT"}
Payloads == {"payload"}

\* Auth configurations: [type, token, headerName].
Auths ==
  { [type |-> "Bearer", token |-> "abc", headerName |-> "Authorization"] }

\* Header lists (arrays of [name, value] pairs) given to the constructor.
\* A header value is kept as the sequence of its space-separated words.
HeaderLists == { <<>> }

\* Auth.getHeaders(): the [name, value] pairs the strategy contributes.
getHeaders(a) ==
  IF a.type = "Bearer" THEN << <<a.headerName, <<"Bearer", a.token>> >> >>
  ELSE IF a.type = "Basic" THEN << <<a.headerName, <<"Basic", a.token>> >> >>
  ELSE <<>>

\* ----------------------------------------------------------------- state
VARIABLES
  baseUrl,      \* this.baseUrl
  auth,         \* this.auth
  headers,      \* this.headers
  middleware,   \* this.middleware
  calls,        \* the verb calls issued so far, in order of issue
  site          \* the middleware a construction site written the README's
                \* way, new Api(baseUrl, auth, ...middleware), passed after
                \* auth (empty for a site written to the constructor's
                \* signature); read by no operation

vars == <<baseUrl, auth, headers, middleware, calls, site>>

\* JavaScript values this.headers may hold: an array of [name, value]
\* pairs or, when the constructor was handed one in their place, a function.
ArrayValue(items) == [type |-> "array", items |-> items, fn |-> ""]
FunctionValue(k) == [type |-> "function", items |-> <<>>, fn |-> k]

\* JavaScript values of the headers option handed to the transport.
NumberValue(n) == [type |-> "number", n |-> n, pairs |-> <<>>]
PairsValue(ps) == [type |-> "pairs", n |-> 0, pairs |-> ps]

NoRequest == [url |-> [base |-> "", path |-> ""], method |-> "", body |-> "",
              headers |-> NumberValue(0)]

\* Array.prototype.push(...items): the array afterwards, and its result.
PushAll(list, items) == list \o items
PushResult(list, items) == Len(list) + Len(items)

\* new URL(url, base)
NewURL(url, base) == [base |-> base, path |-> url]

\* ---------------------------------------------------------- constructor
Constructor(b, a, h, m) ==
  /\ middleware = Entries(m, 0)
  /\ baseUrl = b
  /\ auth = a
  /\ headers = h
  /\ calls = <<>>

\* new Api(baseUrl, auth, headers, ...middleware)
Init ==
  \E b \in BaseUrls, a \in Auths, h \in HeaderLists, m \in KindSeqs(MaxCtorMiddleware) :
    Constructor(b, a, ArrayValue(h), m) /\ site = <<>>

\* new Api(baseUrl, auth, ...middleware), the README's way: the third
\* argument binds to the headers parameter, the rest to ...middleware.
ReadmeNew(b, a, ms) ==
  IF ms = <<>> THEN Constructor(b, a, ArrayValue(<<>>), <<>>)
  ELSE Constructor(b, a, FunctionValue(Head(ms)), Tail(ms))

InitReadme ==
  \E b \in BaseUrls, a \in Auths, ms \in KindSeqs(MaxCtorMiddleware) :
    ReadmeNew(b, a, ms) /\ site = ms

\* ------------------------------------------------------------------ use
\* Mutant: the middleware is put in front of the list.
useUnshift(m) ==
  /\ Len(middleware) < MaxMiddleware
  /\ middleware' = <<Entry(m, 0)>> \o middleware
  /\ UNCHANGED <<baseUrl, auth, headers, calls, site>>

\* Mutant: the middleware is pushed twice.
useTwice(m) ==
  /\ Len(middleware) < MaxMiddleware
  /\ middleware' = PushAll(middleware, <<Entry(m, 0), Entry(m, 0)>>)
  /\ UNCHANGED <<baseUrl, auth, headers, calls, site>>

use(m) ==
  /\ Len(middleware) < MaxMiddleware
  /\ middleware' = PushAll(middleware, <<Entry(m, 0)>>)
  /\ UNCHANGED <<baseUrl, auth, headers, calls, site>>

\* ------------------------------------------------------------ verb calls
\* One verb call: the request handed to the transport (while it is in
\* flight), the state of its promise, and the state of its chain
\* (applyMiddleware's index and the pending middleware invocations).
\* given, base, requests, transport, raw, failure, trace, nexts, rets and
\* seen record what happened and are read by no operation.
NewCall(cmw, base, req) ==
  [ st       |-> "waiting",   \* waiting | chain | resolved | rejected | threw
    req      |-> req,         \* the transport request in flight
    given    |-> cmw,         \* the call-level middleware of this call
    base     |-> base,        \* this.middleware before the call's push
    requests |-> 1,           \* transport requests made for this call
    transport |-> "pending",  \* pending | responded | failed
    raw      |-> 0,           \* the response the transport produced
    failure  |-> "",          \* the error the transport failed with
    index    |-> 0,           \* applyMiddleware's cursor
    stack    |-> <<>>,        \* pending middleware invocations, innermost last
    trace    |-> <<>>,        \* the middleware invocations made, in order
    nexts    |-> <<>>,        \* the invocations of nextHandler, in order
    rets     |-> <<>>,        \* the values middleware invocations returned
    seen     |-> 0,           \* this.middleware.length when the promise settled
    val      |-> 0,           \* the value the promise resolved with
    err      |-> "" ]         \* the error the promise rejected with

\* private fetch(url, options): the handle's header list after
\* this.headers.push(...this.auth.getHeaders()) and the request handed to
\* the transport.
FetchHeaders == ArrayValue(PushAll(headers.items, getHeaders(auth)))
CombinedHeaders == NumberValue(PushResult(headers.items, getHeaders(auth)))

\* this.headers.push is a function only when this.headers is an array;
\* otherwise calling it throws a TypeError out of fetch and out of the verb,
\* before the transport is asked and before any promise exists.
HasPush(v) == v.type = "array"

ThrownCall(cmw, base, e) ==
  [ st |-> "threw", req |-> NoRequest, given |-> cmw, base |-> base,
    requests |-> 0, transport |-> "pending", raw |-> 0, failure |-> "",
    index |-> 0, stack |-> <<>>, trace |-> <<>>, nexts |-> <<>>,
    rets |-> <<>>, seen |-> 0, val |-> 0,
    err |-> e ]

FetchRequest(url, options) ==
  [ url     |-> NewURL(url, baseUrl),
    method  |-> options.method,
    body    |-> options.body,
    headers |-> CombinedHeaders ]

\* Mutants of the push: the call-level middleware put in front of the list;
\* the call-level middleware of earlier calls dropped from it.
AfterVerbUnshift(cmw) == Entries(cmw, Len(calls) + 1) \o middleware
AfterVerbFreshList(cmw) ==
  SelectSeq(middleware, LAMBDA e : e.by = 0) \o Entries(cmw, Len(calls) + 1)

\* What every verb does: push the call-level middleware, then fetch.
AfterVerbPush(cmw) == PushAll(middleware, Entries(cmw, Len(calls) + 1))

Verb(url, cmw, options) ==
  /\ Len(calls) < MaxCalls
  /\ Len(middleware) + Len(cmw) <= MaxMiddleware
  /\ middleware' = AfterVerbPush(cmw)
  /\ IF HasPush(headers)
     THEN /\ headers' = FetchHeaders
          /\ calls' = Append(calls, NewCall(cmw, middleware, FetchRequest(url, options)))
     ELSE /\ headers' = headers
          /\ calls' = Append(calls, ThrownCall(cmw, middleware, "TypeError"))
  /\ UNCHANGED <<baseUrl, auth, site>>

\* JSON.stringify(payload): the body is kept as the fact that there is one.
Stringify(payload) == "json"

get(url, cmw) == Verb(url, cmw, [method |-> "GET", body |-> ""])
put(url, payload, cmw) == Verb(url, cmw, [method |-> "PUT", body |-> Stringify(payload)])
post(url, payload, cmw) == Verb(url, cmw, [method |-> "POST", body |-> Stringify(payload)])
delete(url, payload, cmw) == Verb(url, cmw, [method |-> "DELETE", body |-> Stringify(payload)])

\* ------------------------------------------------------- applyMiddleware
\* A pending invocation this.middleware[pos](arg, nextHandler): next counts
\* the times it has invoked nextHandler so far.
Frame(pos, mw, arg) == [pos |-> pos, k |-> mw.k, next |-> 0, arg |-> arg]

Top(c) == c.stack[Len(c.stack)]
Pop(c) == [c EXCEPT !.stack = SubSeq(@, 1, Len(@) - 1)]

\* Mutant: the catch-handler rejects with an error of its own.
CatchHandlerOwnError(error) == "Error"

\* .catch((error) => Promise.reject(error)) of fetch
CatchHandler(error) == error

\* Mutant: the promise of a failed call is left pending.
RejectNeverSettles(c, e) ==
  [c EXCEPT !.st = "pending", !.stack = <<>>, !.err = e]

\* Mutant: the promise resolves with no value.
ResolveWithNothing(c, v) ==
  [c EXCEPT !.st = "resolved", !.stack = <<>>, !.val = 0, !.seen = Len(middleware)]

\* Mutants: the promise resolves with the response instead of the chain's
\* result; the catch-handler returns the error instead of rejecting with it.
ResolveWithResponse(c, v) ==
  [c EXCEPT !.st = "resolved", !.stack = <<>>, !.val = c.raw, !.seen = Len(middleware)]
RejectSwallowed(c, e) ==
  [c EXCEPT !.st = "resolved", !.stack = <<>>, !.err = e, !.seen = Len(middleware)]

\* The promise of the call settles.
Resolve(c, v) ==
  [c EXCEPT !.st = "resolved", !.stack = <<>>, !.val = v, !.seen = Len(middleware)]
Reject(c, e) ==
  [c EXCEPT !.st = "rejected", !.stack = <<>>, !.err = CatchHandler(e),
            !.seen = Len(middleware)]

\* r is the result of the nextHandler invocation (or, with no invocation
\* pending, of applyMiddleware): the innermost pending invocation goes on
\* with it, and what it returns goes to the one that invoked it.
\* (Returned keeps, for the record, what the invocation that ends returned.)
Returned(c, r) == [Pop(c) EXCEPT !.rets = Append(@, [pos |-> Top(c).pos, v |-> r])]

RECURSIVE Returns(_, _)
Returns(c, r) ==
  IF c.stack = <<>> THEN Resolve(c, r)
  ELSE CASE Top(c).k = "callsNextTwice" /\ Top(c).next = 1 -> c
         [] Top(c).k = "wrapsResult" ->
              Returns(Returned(c, WrapResult(r)), WrapResult(r))
         [] OTHER -> Returns(Returned(c, r), r)

\* e is thrown out of the nextHandler invocation of the innermost pending
\* invocation (or, with none pending, out of applyMiddleware).
RECURSIVE Raises(_, _)
Raises(c, e) ==
  IF c.stack = <<>> THEN Reject(c, e)
  ELSE IF Top(c).k = "catches"
       THEN Returns(Returned(c, CatchResult(e)), CatchResult(e))
  ELSE Raises(Pop(c), e)

\* this.middleware[pos](data, nextHandler) is invoked.
\* (The trace also keeps whether a pending invocation would catch a throw.)
Guarded(c) == \E j \in 1..Len(c.stack) : c.stack[j].k = "catches"

\* Mutant: the middleware is handed the response, not the value passed on.
InvokeWithResponse(c, pos, data) ==
  [c EXCEPT !.stack = Append(@, Frame(pos, middleware[pos + 1], c.raw)),
            !.trace = Append(@, [pos |-> pos, mw |-> middleware[pos + 1],
                                 arg |-> c.raw, guarded |-> Guarded(c)])]

Invoke(c, pos, data) ==
  [c EXCEPT !.stack = Append(@, Frame(pos, middleware[pos + 1], data)),
            !.trace = Append(@, [pos |-> pos, mw |-> middleware[pos + 1],
                                 arg |-> data, guarded |-> Guarded(c)])]

\* index >= this.middleware.length
PastLast(index) == index >= Len(middleware)

\* Mutant: the cursor is not advanced.
nextHandlerStays(c, newData) ==
  IF PastLast(c.index) THEN Returns(c, newData)
  ELSE Invoke(c, c.index, newData)

\* Mutant: the cursor advances by two.
nextHandlerSkips(c, newData) ==
  LET c1 == [c EXCEPT !.index = @ + 2]
  IN  IF PastLast(c1.index) THEN Returns(c1, newData)
      ELSE Invoke(c1, c1.index, newData)

\* nextHandler(newData), invoked by the innermost pending invocation.
nextHandler(c, newData) ==
  LET c1 == [c EXCEPT !.index = @ + 1]
  IN  IF PastLast(c1.index) THEN Returns(c1, newData)
      ELSE Invoke(c1, c1.index, newData)

\* applyMiddleware(data): this.middleware[0] of an empty list is undefined,
\* and invoking it throws a TypeError.
applyMiddleware(c, data) ==
  LET c1 == [c EXCEPT !.index = 0, !.raw = data]
  IN  IF Len(middleware) = 0 THEN Reject(c1, "TypeError")
      ELSE Invoke(c1, c1.index, data)

\* ------------------------------------------------------------ transport
\* The transport produces a response: fetch's then-handler runs
\* applyMiddleware on it.
TransportResponds(i, response) ==
  /\ calls[i].st = "waiting"
  /\ calls' = [calls EXCEPT ![i] =
       applyMiddleware([calls[i] EXCEPT !.st = "chain", !.req = NoRequest,
                                        !.transport = "responded"], response)]
  /\ UNCHANGED <<baseUrl, auth, headers, middleware, site>>

\* Mutant: the then-handler runs on a failure of the transport too.
TransportFailsThenChain(i, error) ==
  /\ calls[i].st = "waiting"
  /\ calls' = [calls EXCEPT ![i] =
       applyMiddleware([calls[i] EXCEPT !.st = "chain", !.req = NoRequest,
                                        !.transport = "failed",
                                        !.failure = error], 0)]
  /\ UNCHANGED <<baseUrl, auth, headers, middleware, site>>

\* The transport fails: the then-handler is skipped, the catch-handler runs.
TransportFails(i, error) ==
  /\ calls[i].st = "waiting"
  /\ calls' = [calls EXCEPT ![i] =
       Reject([calls[i] EXCEPT !.req = NoRequest, !.transport = "failed",
                               !.failure = error], error)]
  /\ UNCHANGED <<baseUrl, auth, headers, middleware, site>>

\* ----------------------------------------------------- a middleware runs
\* The body of the innermost pending invocation of call i runs, up to its
\* return, its throw or its (next) invocation of nextHandler.
\* (Continues keeps, for the record, what the invocation of nextHandler was
\* given, the length of the list at that moment, and which invocation of
\* a middleware it made, if any.)
Continues(c, v) ==
  LET after == nextHandler(c, v)
  IN  [after EXCEPT !.nexts = Append(@,
        [ from |-> Top(c).pos, nth |-> Top(c).next, v |-> v,
          len |-> Len(middleware),
          inv |-> IF Len(after.trace) > Len(c.trace) THEN Len(after.trace) ELSE 0 ])]

MiddlewareBody(c) ==
  LET f == Top(c)
      called == [c EXCEPT !.stack[Len(c.stack)].next = @ + 1]
  IN  CASE f.k = "shortCircuit" ->
             Returns(Returned(c, ShortCircuitResult(f.arg)), ShortCircuitResult(f.arg))
        [] f.k = "throws" -> Raises(Pop(c), "MiddlewareError")
        [] f.k = "transform" -> Continues(called, Transform(f.arg))
        [] OTHER -> Continues(called, f.arg)

MiddlewareRuns(i) ==
  /\ calls[i].st = "chain"
  /\ calls' = [calls EXCEPT ![i] = MiddlewareBody(calls[i])]
  /\ UNCHANGED <<baseUrl, auth, headers, middleware, site>>

\* ------------------------------------------------------- specification
Next ==
  \/ \E m \in MiddlewareKinds : use(m)
  \/ \E url \in Paths, cmw \in KindSeqs(MaxCallMiddleware) : get(url, cmw)
  \/ \E url \in Paths, p \in Payloads, cmw \in KindSeqs(MaxCallMiddleware) : put(url, p, cmw)
  \/ \E url \in Paths, p \in Payloads, cmw \in KindSeqs(MaxCallMiddleware) : post(url, p, cmw)
  \/ \E url \in Paths, p \in Payloads, cmw \in KindSeqs(MaxCallMiddleware) : delete(url, p, cmw)
  \/ \E i \in 1..Len(calls), r \in Responses : TransportResponds(i, r)
  \/ \E i \in 1..Len(calls), e \in NetworkErrors : TransportFails(i, e)
  \/ \E i \in 1..Len(calls) : MiddlewareRuns(i)

Spec == Init /\ [][Next]_vars

\* The transport eventually responds or fails, and a middleware that was
\* invoked eventually runs: the pending step of call i is taken.
Progress(i) ==
  /\ i \in 1..Len(calls)
  /\ \/ \E r \in Responses : TransportResponds(i, r)
     \/ \E e \in NetworkErrors : TransportFails(i, e)
     \/ MiddlewareRuns(i)

\* The handle and its calls with middleware that invoke nextHandler at most
\* once, as 'return next(value)' or inside try/catch, or not at all.
OnceKinds == {"forward", "shortCircuit", "throws", "catches"}

RECURSIVE OnceSeqs(_)
OnceSeqs(n) ==
  IF n = 0 THEN { <<>> }
  ELSE OnceSeqs(n - 1) \cup
         { Append(ks, k) : ks \in { q \in OnceSeqs(n - 1) : Len(q) = n - 1 }, k \in OnceKinds }

InitOnce ==
  \E b \in BaseUrls, a \in Auths, h \in HeaderLists, m \in OnceSeqs(MaxCtorMiddleware) :
    Constructor(b, a, ArrayValue(h), m) /\ site = <<>>

NextOnce ==
  \/ \E m \in OnceKinds : use(m)
  \/ \E url \in Paths, cmw \in OnceSeqs(MaxCallMiddleware) : get(url, cmw)
  \/ \E url \in Paths, p \in Payloads, cmw \in OnceSeqs(MaxCallMiddleware) : put(url, p, cmw)
  \/ \E url \in Paths, p \in Payloads, cmw \in OnceSeqs(MaxCallMiddleware) : post(url, p, cmw)
  \/ \E url \in Paths, p \in Payloads, cmw \in OnceSeqs(MaxCallMiddleware) : delete(url, p, cmw)
  \/ \E i \in 1..Len(calls), r \in Responses : TransportResponds(i, r)
  \/ \E i \in 1..Len(calls), e \in NetworkErrors : TransportFails(i, e)
  \/ \E i \in 1..Len(calls) : MiddlewareRuns(i)

SpecFair ==
  InitOnce /\ [][NextOnce]_vars /\ \A i \in 1..MaxCalls : WF_vars(Progress(i))

\* The handle constructed the way the README shows.
SpecReadme == InitReadme /\ [][Next]_vars

\* ====================================================================
\* Properties
\* ====================================================================
CallIds == 1..Len(calls)
Settled(c) == c.st \in {"resolved", "rejected"}

\* The list the chain of a settled call ran over: this.middleware as it
\* stood when the promise settled.
ChainList(c) == SubSeq(middleware, 1, c.seen)

\* The middleware invoked by a call, in order of invocation.
TraceMw(c) == [j \in 1..Len(c.trace) |-> c.trace[j].mw]
TraceKinds(c) == [j \in 1..Len(c.trace) |-> c.trace[j].mw.k]

\* Middleware that forward with 'return next(value)'.
Forwarding == {"forward", "transform"}
AllOfKind(list, K) == \A j \in 1..Len(list) : list[j].k \in K

\* Every entry of l, at its position of the list, exactly once, in order.
InListOrder(c, l) ==
  /\ Len(c.trace) = Len(l)
  /\ \A j \in 1..Len(l) : c.trace[j].pos = j - 1 /\ c.trace[j].mw = l[j]

\* ------------------------------------------------------------------ C1
\* C1 (as claimed): a call whose response arrives while the middleware
\* list is empty resolves with the raw response and invokes no middleware.
C1_EmptyListResolvesWithResponse ==
  \A i \in CallIds :
    (calls[i].transport = "responded" /\ Settled(calls[i]) /\ calls[i].seen = 0)
      => /\ calls[i].st = "resolved"
         /\ calls[i].val = calls[i].raw
         /\ calls[i].trace = <<>>

\* ------------------------------------------------------------------ C2
\* C2: over a list of N >= 1 pass-through middleware the chain resolves with
\* the raw response, and each of the N is invoked exactly once, in list
\* order, each with the raw response.
C2_PassThroughIdentity ==
  \A i \in CallIds :
    (calls[i].st = "resolved" /\ calls[i].seen >= 1
       /\ AllOfKind(ChainList(calls[i]), {"forward"}))
      => /\ calls[i].val = calls[i].raw
         /\ InListOrder(calls[i], ChainList(calls[i]))
         /\ \A j \in 1..Len(calls[i].trace) : calls[i].trace[j].arg = calls[i].raw

C2_Witness ==
  \E i \in CallIds :
    /\ calls[i].st = "resolved" /\ calls[i].seen = 3
    /\ AllOfKind(ChainList(calls[i]), {"forward"})
    /\ Len(calls[i].trace) = 3
    /\ calls[i].val = calls[i].raw

\* ------------------------------------------------------------------ C3
\* C3: when the middleware at positions 0..k-1 forward and the one at
\* position k returns without invoking its continuation, it is the last
\* middleware invoked in that call, and once it has returned the call is
\* resolved with the value it returned.
ShortCircuitsAt(c, j) ==
  /\ j \in 1..Len(c.trace)
  /\ c.trace[j].mw.k = "shortCircuit"
  /\ \A h \in 1..(j - 1) : c.trace[h].mw.k \in Forwarding

C3_ShortCircuit ==
  \A i \in CallIds : \A j \in 1..Len(calls[i].trace) :
    ShortCircuitsAt(calls[i], j)
      => /\ j = Len(calls[i].trace)
         /\ \A h \in 1..j : calls[i].trace[h].pos = h - 1
         /\ \/ /\ calls[i].st = "chain"
               /\ Top(calls[i]).pos = j - 1 /\ Top(calls[i]).next = 0
            \/ /\ calls[i].st = "resolved"
               /\ calls[i].val = ShortCircuitResult(calls[i].trace[j].arg)

\* A middleware at position k >= 1 short-circuited a list with later
\* entries, and the call resolved.
C3_Witness ==
  \E i \in CallIds :
    /\ calls[i].st = "resolved"
    /\ Len(calls[i].trace) >= 2
    /\ ShortCircuitsAt(calls[i], Len(calls[i].trace))
    /\ calls[i].seen > Len(calls[i].trace)
    /\ calls[i].val = ShortCircuitResult(calls[i].trace[Len(calls[i].trace)].arg)

\* ------------------------------------------------------------------ C4
\* The handle-level list when call c was issued (what the constructor and
\* use() had registered), and the call-level middleware of call number i.
HandleLevelAtIssue(c) == SelectSeq(c.base, LAMBDA e : e.by = 0)
CallLevel(i) == Entries(calls[i].given, i)

\* A call over which every middleware forwarded, and to whose list nothing
\* was added after it was issued: its trace is the chain it executed.
RanWholeChain(i) ==
  /\ calls[i].st = "resolved"
  /\ calls[i].seen = Len(calls[i].base) + Len(calls[i].given)
  /\ AllOfKind(ChainList(calls[i]), Forwarding)

\* C4 (as claimed): the chain executed for a call is exactly the
\* handle-level list followed by the call-level middleware of that call.
C4_ChainIsHandleThenCall ==
  \A i \in CallIds :
    RanWholeChain(i)
      => TraceMw(calls[i]) = HandleLevelAtIssue(calls[i]) \o CallLevel(i)

\* ------------------------------------------------------------------ C5
\* The invocations of call i that are of middleware registered at handle
\* level before the call, or of its own call-level middleware.
OwnInvocations(i) ==
  SelectSeq(calls[i].trace,
            LAMBDA t : \/ t.mw.by = i
                       \/ t.mw.by = 0 /\ t.pos < Len(calls[i].base))

\* C5: in a call over which everything forwards, the middleware registered
\* at handle level before the call run first, in registration order, then
\* the call's call-level middleware, in argument order.
C5_HandleLevelFirst ==
  \A i \in CallIds :
    (calls[i].st = "resolved" /\ AllOfKind(ChainList(calls[i]), Forwarding))
      => LET own == OwnInvocations(i)
         IN  [j \in 1..Len(own) |-> own[j].mw]
               = HandleLevelAtIssue(calls[i]) \o CallLevel(i)

\* Handle-level [a, b] and call-level [c]: executed a, b, c.
C5_Witness ==
  \E i \in CallIds :
    /\ calls[i].st = "resolved"
    /\ calls[i].base = <<Entry("forward", 0), Entry("transform", 0)>>
    /\ calls[i].given = <<"forward">>
    /\ TraceKinds(calls[i]) = <<"forward", "transform", "forward">>
    /\ \A j \in 1..3 : calls[i].trace[j].pos = j - 1

\* ------------------------------------------------------------------ C6
Count(seq, Test(_)) == Len(SelectSeq(seq, Test))

C7_UseAppendsOneEntry ==
  /\ [][(calls' = calls /\ middleware' # middleware)
          => /\ \E m \in MiddlewareKinds : middleware' = Append(middleware, Entry(m, 0))
             /\ UNCHANGED <<baseUrl, auth, headers>>]_vars
  /\ [](\A i \in CallIds :
          (calls[i].st = "resolved" /\ AllOfKind(ChainList(calls[i]), Forwarding))
            => InListOrder(calls[i], ChainList(calls[i])))

\* A call issued on an empty list, then the same middleware registered
\* twice through use(), and the call ran it twice.
C7_Witness ==
  \E i \in CallIds :
    /\ calls[i].base = <<>> /\ calls[i].given = <<>>
    /\ calls[i].st = "resolved" /\ calls[i].seen = 2
    /\ middleware[1] = Entry("forward", 0) /\ middleware[2] = Entry("forward", 0)
    /\ Count(calls[i].trace, LAMBDA t : t.mw = Entry("forward", 0)) = 2

\* ------------------------------------------------------------------ C8
\* C8: a call whose transport failed is rejected with the error the
\* transport produced, has invoked no middleware, and has made one
\* transport request.
C8_TransportFailurePropagates ==
  \A i \in CallIds :
    calls[i].transport = "failed"
      => /\ calls[i].st = "rejected"
         /\ calls[i].err = calls[i].failure
         /\ calls[i].failure \in NetworkErrors
         /\ calls[i].trace = <<>>
         /\ calls[i].requests = 1

\* The transport failed for a call on a handle that has middleware.
C8_Witness ==
  \E i \in CallIds :
    /\ calls[i].transport = "failed" /\ calls[i].st = "rejected"
    /\ calls[i].err = "ETIMEDOUT"
    /\ calls[i].seen >= 2

\* ------------------------------------------------------------------ C9
\* The j-th invocation of the call is of a middleware that fails, with no
\* pending invocation that catches.
FailsUnhandledAt(c, j) ==
  /\ j \in 1..Len(c.trace)
  /\ c.trace[j].mw.k = "throws"
  /\ ~c.trace[j].guarded

\* C9: a middleware that fails with no pending invocation to catch is the
\* last one invoked in its call, and once it has run the call is rejected
\* with its failure; a call on an empty list is rejected too, not resolved.
C9_MiddlewareFailurePropagates ==
  \A i \in CallIds :
    /\ \A j \in 1..Len(calls[i].trace) :
         FailsUnhandledAt(calls[i], j)
           => /\ j = Len(calls[i].trace)
              /\ \/ /\ calls[i].st = "chain"
                    /\ Top(calls[i]).pos = calls[i].trace[j].pos
                    /\ Top(calls[i]).next = 0
                 \/ /\ calls[i].st = "rejected"
                    /\ calls[i].err = "MiddlewareError"
    /\ (calls[i].transport = "responded" /\ Settled(calls[i]) /\ calls[i].trace = <<>>)
         => calls[i].st = "rejected" /\ calls[i].err = "TypeError"

\* The middleware at position k >= 1 failed, the list has later entries,
\* and the call is rejected.
C9_Witness ==
  \E i \in CallIds :
    /\ calls[i].st = "rejected" /\ calls[i].err = "MiddlewareError"
    /\ Len(calls[i].trace) >= 2
    /\ FailsUnhandledAt(calls[i], Len(calls[i].trace))
    /\ calls[i].seen > calls[i].trace[Len(calls[i].trace)].pos + 1

\* ----------------------------------------------------------------- C10
\* C10 (as claimed): the headers handed to the transport are a collection
\* of header pairs that holds the pairs of auth.getHeaders().
C10_TransportGetsMergedHeaders ==
  \A i \in CallIds :
    calls[i].st = "waiting"
      => /\ calls[i].req.headers.type = "pairs"
         /\ \A j \in 1..Len(getHeaders(auth)) :
              \E h \in 1..Len(calls[i].req.headers.pairs) :
                calls[i].req.headers.pairs[h] = getHeaders(auth)[j]

\* ----------------------------------------------------------------- C11
\* C11 (as claimed): the middleware m1..mn handed to the constructor the
\* README's way are the first n entries of the handle's middleware list,
\* in that order.
C11_ReadmeConstructorRegistersAll ==
  /\ Len(middleware) >= Len(site)
  /\ SubSeq(middleware, 1, Len(site)) = Entries(site, 0)

\* ----------------------------------------------------------------- C12
\* C12 (as claimed): a step that issues a verb call leaves baseUrl, the
\* auth reference and the handle's header set as they were.
C12_VerbLeavesHandleUnchanged ==
  [][Len(calls') > Len(calls) => UNCHANGED <<baseUrl, auth, headers>>]_vars

\* ----------------------------------------------------------------- C13
\* C13 (as claimed): a call invokes only middleware that were in the list
\* when it was issued (the list before its push, and its own call-level
\* middleware).
C13_ChainFixedAtIssue ==
  \A i \in CallIds : \A j \in 1..Len(calls[i].trace) :
    calls[i].trace[j].pos < Len(calls[i].base) + Len(calls[i].given)

\* ----------------------------------------------------------------- C14
\* C14: the positions a call invokes start at 0 and strictly increase, so
\* no position is invoked twice in one call.
C14_CursorOnlyMovesForward ==
  \A i \in CallIds :
    /\ Len(calls[i].trace) >= 1 => calls[i].trace[1].pos = 0
    /\ \A j \in 1..(Len(calls[i].trace) - 1) :
         calls[i].trace[j].pos < calls[i].trace[j + 1].pos

\* Two calls are in their chains at once, each past its first invocation,
\* and in one of them a middleware that invokes its continuation twice has
\* had a third middleware invoked by its second invocation.
C14_Witness ==
  /\ Len(calls) = 2
  /\ calls[1].st = "chain" /\ calls[2].st = "chain"
  /\ Len(calls[1].trace) >= 2 /\ Len(calls[2].trace) >= 2
  /\ \E i \in CallIds :
       /\ Len(calls[i].trace) = 3
       /\ calls[i].trace[1].mw.k = "callsNextTwice"
       /\ calls[i].trace[2].mw.k = "shortCircuit"
       /\ calls[i].stack[1].next = 2

\* ----------------------------------------------------------------- C19
IsPrefix(s, t) == Len(s) <= Len(t) /\ SubSeq(t, 1, Len(s)) = s

\* C19: in every step the middleware list before the step is a prefix of
\* the list after it.
C19_ListOnlyGrows == [][IsPrefix(middleware, middleware')]_vars

\* Two calls were issued and the list holds entries of the constructor or
\* use() and of both calls.
C19_Witness ==
  /\ Len(calls) = 2
  /\ Len(middleware) = 3
  /\ \A b \in 0..2 : \E j \in 1..3 : middleware[j].by = b

\* ------------------------------------------------------------------ C15
\* What invocations returned, by position (a position is invoked at most
\* once in a call).
HasRet(c, pos) == \E j \in 1..Len(c.rets) : c.rets[j].pos = pos
Ret(c, pos) == c.rets[CHOOSE j \in 1..Len(c.rets) : c.rets[j].pos = pos].v

InvokedKind(c, pos) ==
  c.trace[CHOOSE j \in 1..Len(c.trace) : c.trace[j].pos = pos].mw.k

\* The invocation e of nextHandler handed its result back to the middleware
\* that made it: a middleware that returns what nextHandler returned has
\* returned v after a terminal invocation, and the invoked middleware's
\* return value otherwise.
HandsBackResult(c, e) ==
  (InvokedKind(c, e.from) \in Forwarding /\ HasRet(c, e.from)) =>
    IF e.inv = 0 THEN Ret(c, e.from) = e.v
    ELSE /\ HasRet(c, c.trace[e.inv].pos)
         /\ Ret(c, e.from) = Ret(c, c.trace[e.inv].pos)

\* C15 as stated: every invocation of the continuation by the middleware at
\* position i with value v, a second invocation by the same middleware
\* included, invokes the middleware at position i+1 with v and returns its
\* result, or returns v as the terminal result when i is the last position.
C15_EachInvocationGoesToNextPosition ==
  \A i \in CallIds : \A n \in 1..Len(calls[i].nexts) :
    LET c == calls[i]
        e == c.nexts[n]
    IN  /\ IF e.from + 1 < e.len
           THEN /\ e.inv # 0
                /\ c.trace[e.inv].pos = e.from + 1
                /\ c.trace[e.inv].arg = e.v
           ELSE e.inv = 0
        /\ HandsBackResult(c, e)

\* C15, amended: the n-th invocation of the continuation made during a call
\* (counting the invocations of all its middleware), with value v, invokes
\* the middleware at position n with v and returns its result, or returns v
\* as the terminal result when n is past the last position of the list; for
\* the middleware at position i that is position i+1 on its first
\* invocation of the continuation only.
C15_NthInvocationGoesToNthPosition ==
  \A i \in CallIds : \A n \in 1..Len(calls[i].nexts) :
    LET c == calls[i]
        e == c.nexts[n]
    IN  /\ IF n < e.len
           THEN /\ e.inv # 0
                /\ c.trace[e.inv].pos = n
                /\ c.trace[e.inv].mw = middleware[n + 1]
                /\ c.trace[e.inv].arg = e.v
           ELSE e.inv = 0
        /\ e.nth = 1 => n = e.from + 1
        /\ HandsBackResult(c, e)

\* A call resolved after one middleware invoked the continuation twice and
\* the second invocation invoked a middleware beyond the next position, and
\* after another invocation of the continuation was terminal.
C15_Witness ==
  \E i \in CallIds :
    /\ calls[i].st = "resolved"
    /\ \E n \in 1..Len(calls[i].nexts) :
         /\ calls[i].nexts[n].nth = 2
         /\ calls[i].nexts[n].inv # 0
         /\ calls[i].trace[calls[i].nexts[n].inv].pos > calls[i].nexts[n].from + 1
    /\ \E n \in 1..Len(calls[i].nexts) :
         /\ calls[i].nexts[n].inv = 0
         /\ calls[i].nexts[n].v # calls[i].raw

\* ------------------------------------------------------------------ C16
LastInvoked(c) == c.trace[Len(c.trace)].pos
FirstInvoked(c) == c.trace[1].pos

\* C16 as stated: for a non-empty list, the value the chain produces is the
\* return value of the last middleware invoked in the call.
C16_ValueOfLastInvoked ==
  \A i \in CallIds :
    (calls[i].st = "resolved" /\ calls[i].trace # <<>>) =>
      /\ HasRet(calls[i], LastInvoked(calls[i]))
      /\ calls[i].val = Ret(calls[i], LastInvoked(calls[i]))

\* C16, amended: for a non-empty list, the value the chain produces is the
\* return value of the first middleware invoked in the call, the one at
\* position 0; it is the last invoked middleware's return value only when
\* every middleware invoked before it returns what its continuation returned.
C16_ValueOfFirstInvoked ==
  \A i \in CallIds :
    (calls[i].st = "resolved" /\ calls[i].trace # <<>>) =>
      /\ FirstInvoked(calls[i]) = 0
      /\ HasRet(calls[i], 0)
      /\ calls[i].val = Ret(calls[i], 0)
      /\ (\A j \in 1..(Len(calls[i].trace) - 1) : calls[i].trace[j].mw.k \in Forwarding)
           => /\ HasRet(calls[i], LastInvoked(calls[i]))
              /\ calls[i].val = Ret(calls[i], LastInvoked(calls[i]))

\* A call resolved with a value that the first middleware made out of what
\* its continuation returned; the last middleware invoked returned another.
C16_Witness ==
  \E i \in CallIds :
    /\ calls[i].st = "resolved"
    /\ Len(calls[i].trace) >= 2
    /\ calls[i].trace[1].mw.k = "wrapsResult"
    /\ HasRet(calls[i], LastInvoked(calls[i]))
    /\ calls[i].val = WrapResult(Ret(calls[i], LastInvoked(calls[i])))

\* ------------------------------------------------------------------ C17
\* C17: each verb call performs exactly one transport request, no middleware
\* is invoked for a call before the response to that request has arrived,
\* and the chain of a call is started at most once, with that response.
C17_OneRequestThenChainOnce ==
  \A i \in CallIds :
    LET c == calls[i]
    IN  /\ c.requests = 1
        /\ (c.req # NoRequest) = (c.transport = "pending")
        /\ (c.st = "waiting") = (c.transport = "pending")
        /\ c.transport # "responded" =>
             c.trace = <<>> /\ c.stack = <<>> /\ c.nexts = <<>>
        /\ Cardinality({j \in 1..Len(c.trace) : c.trace[j].pos = 0}) <= 1
        /\ c.trace # <<>> => c.trace[1].pos = 0 /\ c.trace[1].arg = c.raw

\* One call ran its chain over two middleware after its response arrived
\* and settled, while the request of another call is still in flight with
\* no middleware invoked for it.
C17_Witness ==
  \E i, j \in CallIds :
    /\ calls[i].transport = "responded"
    /\ Settled(calls[i])
    /\ Len(calls[i].trace) >= 2
    /\ calls[j].transport = "pending"
    /\ calls[j].trace = <<>>
    /\ Len(calls[j].base) + Len(calls[j].given) >= 1

\* ------------------------------------------------------------------ C18
\* C18: every issued verb call eventually settles, its promise resolved or
\* rejected, when the transport eventually responds or fails and every
\* invoked middleware eventually runs; and the chain of a call never makes
\* more middleware invocations than the list it runs over has entries.
C18_EveryCallSettles ==
  /\ [](\A i \in CallIds : Len(calls[i].trace) <= Len(middleware))
  /\ [](\A i \in CallIds : Settled(calls[i]) => Len(calls[i].trace) <= calls[i].seen)
  /\ \A i \in 1..MaxCalls :
       (i \in CallIds) ~> (i \in CallIds /\ Settled(calls[i]))

\* Two calls have settled, one resolved after invoking every entry of the
\* list and one rejected.
C18_Witness ==
  /\ Len(calls) = MaxCalls
  /\ \A i \in CallIds : Settled(calls[i])
  /\ \E i \in CallIds :
       /\ calls[i].st = "resolved"
       /\ Len(calls[i].trace) = Len(middleware)
       /\ Len(middleware) = MaxMiddleware
  /\ \E i \in CallIds : calls[i].st = "rejected"

====
